---- MODULE Spec2Model ----
(***************************************************************************)
(* Model of app/main.py: a FastAPI application object built from two       *)
(* settings, one route GET "/" bound to the handler index, and the grid    *)
(* constant pic.  Requests are served by the framework's router in steps   *)
(* (receive, dispatch, run endpoint, send) so that several requests can be *)
(* in flight at once.                                                      *)
(*                                                                         *)
(* Text is modelled as sequences of Unicode code points, response bodies   *)
(* as sequences of bytes, paths as sequences of one-character strings.     *)
(***************************************************************************)
EXTENDS Integers, Sequences, FiniteSets, TLC

\* ------------------------------------------------------------------ bounds
MaxRequests == 2      \* requests received in one run
MaxInFlight == 2      \* requests in flight at the same time

\* ------------------------------------------------------------------ inputs
\* values the configuration loader may supply (core.config.settings)
Titles   == {"Blog", "Blog API"}
Versions == {"0.1.0"}

Methods == {"GET", "POST"}

RootPath     == <<"/">>
DocsPath     == <<"/", "d", "o", "c", "s">>
RedocPath    == <<"/", "r", "e", "d", "o", "c">>
OpenapiPath  == <<"/", "o", "p", "e", "n", "a", "p", "i", ".", "j", "s", "o", "n">>
OAuth2Path   == <<"/", "d", "o", "c", "s", "/", "o", "a", "u", "t", "h", "2", "-",
                  "r", "e", "d", "i", "r", "e", "c", "t">>
OtherPath    == <<"/", "x">>

\* paths of the requests the model receives
Paths == {RootPath, DocsPath, OtherPath}

\* paths the router is also asked about, without a request being received
ProbePaths ==
    {RootPath, RootPath \o <<"/">>, OtherPath, OtherPath \o <<"/">>,
     DocsPath, DocsPath \o <<"/">>, DocsPath \o <<"/", "/">>,
     RedocPath, RedocPath \o <<"/">>, OpenapiPath, OpenapiPath \o <<"/">>,
     OAuth2Path, OAuth2Path \o <<"/">>, DocsPath \o OtherPath}

\* query strings: "" and "q=1"; bodies: "" and "{}"
Queries == {<< >>, <<113, 61, 49>>}
Bodies  == {<< >>, <<123, 125>>}

\* the requests received: plain, with a query string, or with a body
Requests ==
    {req \in [method : Methods, path : Paths, query : Queries, body : Bodies] :
        req.query = << >> \/ req.body = << >>}

\* ------------------------------------------------------------------- state
VARIABLES
    settings,   \* core.config.settings: PROJECT_TITLE, PROJECT_VERSION
    modulePc,   \* next top-level statement of main.py, or "serving"
    app,        \* the FastAPI object: title, version, routes
    pic,        \* the grid
    inflight,   \* request id -> [req, pc, endpoint, response]
    log,        \* responses sent, in the order they were sent
    nextId      \* id of the next request received

vars == <<settings, modulePc, app, pic, inflight, log, nextId>>

NoApp      == [title |-> "", version |-> "", routes |-> << >>]
NoPic      == << >>
NoResponse == [status |-> 0, body |-> << >>]

\* ----------------------------------------------------- response rendering
Hex(n) == IF n < 10 THEN 48 + n ELSE 87 + n

\* json.dumps(..., ensure_ascii=False) of one character of a string
EscapeChar(c) ==
    CASE c = 34 -> <<92, 34>>
      [] c = 92 -> <<92, 92>>
      [] c = 10 -> <<92, 110>>
      [] c = 13 -> <<92, 114>>
      [] c = 9  -> <<92, 116>>
      [] c = 8  -> <<92, 98>>
      [] c = 12 -> <<92, 102>>
      [] c < 32 /\ c \notin {8, 9, 10, 12, 13}
                -> <<92, 117, 48, 48, Hex(c \div 16), Hex(c % 16)>>
      [] OTHER  -> <<c>>

RECURSIVE EscapeStr(_)
EscapeStr(s) ==
    IF s = << >> THEN << >> ELSE EscapeChar(Head(s)) \o EscapeStr(Tail(s))

\* json.dumps of a str: the escaped text between double quotes
JsonDumpsStr(s) == <<34>> \o EscapeStr(s) \o <<34>>

\* str.encode("utf-8") of one code point
Utf8Char(c) ==
    IF c < 128 THEN <<c>>
    ELSE IF c < 2048 THEN <<192 + (c \div 64), 128 + (c % 64)>>
    ELSE IF c < 65536
         THEN <<224 + (c \div 4096), 128 + ((c \div 64) % 64), 128 + (c % 64)>>
    ELSE <<240 + (c \div 262144), 128 + ((c \div 4096) % 64),
           128 + ((c \div 64) % 64), 128 + (c % 64)>>

RECURSIVE Utf8Encode(_)
Utf8Encode(s) ==
    IF s = << >> THEN << >> ELSE Utf8Char(Head(s)) \o Utf8Encode(Tail(s))

\* JSONResponse(content=<str>): status 200, body the UTF-8 JSON text
JSONResponse(content) ==
    [status |-> 200, body |-> Utf8Encode(JsonDumpsStr(content))]

\* the framework's answer to HTTPException(status, detail):
\* {"detail":<detail>} as JSON
DetailKey == <<123, 34, 100, 101, 116, 97, 105, 108, 34, 58>>   \* {"detail":
ErrorResponse(status, detail) ==
    [status |-> status,
     body   |-> Utf8Encode(DetailKey \o JsonDumpsStr(detail) \o <<125>>)]

NotFoundDetail == <<78, 111, 116, 32, 70, 111, 117, 110, 100>>   \* Not Found
MethodNotAllowedDetail ==                                  \* Method Not Allowed
    <<77, 101, 116, 104, 111, 100, 32, 78, 111, 116, 32, 65, 108, 108, 111,
      119, 101, 100>>

NotFound         == ErrorResponse(404, NotFoundDetail)
MethodNotAllowed == ErrorResponse(405, MethodNotAllowedDetail)

\* a page generated by the framework itself (OpenAPI schema, Swagger UI,
\* ReDoc); only its status is modelled, its content is left out
FrameworkPage    == [status |-> 200, body |-> << >>]
RedirectResponse == [status |-> 307, body |-> << >>]

\* ------------------------------------------------------------------ routes
\* routes the FastAPI constructor registers when openapi_url, docs_url and
\* redoc_url keep their defaults (none is passed on line 5)
DefaultRoutes ==
    << [path |-> OpenapiPath, methods |-> {"GET", "HEAD"}, endpoint |-> "openapi"],
       [path |-> DocsPath,    methods |-> {"GET", "HEAD"}, endpoint |-> "swagger_ui_html"],
       [path |-> OAuth2Path,  methods |-> {"GET", "HEAD"}, endpoint |-> "swagger_ui_redirect"],
       [path |-> RedocPath,   methods |-> {"GET", "HEAD"}, endpoint |-> "redoc_html"] >>

\* @app.get("/") on index
IndexRoute == [path |-> RootPath, methods |-> {"GET"}, endpoint |-> "index"]

\* index with the emoji left out of the literal
index_NoEmoji ==
    <<72, 101, 108, 108, 111, 44, 32, 87, 111, 114, 108, 100, 33, 32, 45, 32,
      83, 117, 98, 114, 97, 116, 97, 32, 77, 111, 110, 100, 97, 108>>

\* index counting its calls in a global: the greeting changes after the
\* first response
index_Counting ==
    IF log = << >>
    THEN <<72, 101, 108, 108, 111, 44, 32, 87, 111, 114, 108, 100, 33, 32, 45,
           32, 83, 117, 98, 114, 97, 116, 97, 32, 77, 111, 110, 100, 97, 108,
           32, 128640>>
    ELSE <<72, 101, 108, 108, 111, 32, 97, 103, 97, 105, 110>>

\* index building its result in a buffer shared by all requests: the
\* greeting is cut short while another request is in flight
index_SharedBuffer ==
    IF Cardinality(DOMAIN inflight) > 1
    THEN <<72, 101, 108, 108, 111>>
    ELSE <<72, 101, 108, 108, 111, 44, 32, 87, 111, 114, 108, 100, 33, 32, 45,
           32, 83, 117, 98, 114, 97, 116, 97, 32, 77, 111, 110, 100, 97, 108,
           32, 128640>>

\* def index() -> str: the returned string, as code points
\* "Hello, World! - Subrata Mondal " followed by U+1F680
index ==
    <<72, 101, 108, 108, 111, 44, 32, 87, 111, 114, 108, 100, 33, 32, 45, 32,
      83, 117, 98, 114, 97, 116, 97, 32, 77, 111, 110, 100, 97, 108, 32,
      128640>>

\* pic with one entry that is not zero
PicLiteral_OneSet == [i \in 1..5 |-> [j \in 1..5 |-> IF i = 3 /\ j = 3 THEN 1 ELSE 0]]

\* pic: five rows of five 0.0
PicLiteral == [i \in 1..5 |-> [j \in 1..5 |-> 0]]

\* ------------------------------------------------------------------ router
\* Route.matches: the path must match exactly (no route has parameters);
\* a matching path with a method outside the route's methods is PARTIAL
Matches(route, path, method) ==
    IF route.path # path THEN "NONE"
    ELSE IF method \in route.methods THEN "FULL"
    ELSE "PARTIAL"

RECURSIVE RStripSlash(_)
RStripSlash(path) ==
    IF path # << >> /\ path[Len(path)] = "/"
    THEN RStripSlash(SubSeq(path, 1, Len(path) - 1))
    ELSE path

\* redirect_slashes: the path with its trailing slashes removed, or with one
\* added
RedirectPath(path) ==
    IF path[Len(path)] = "/" THEN RStripSlash(path) ELSE path \o <<"/">>

\* Router: the first route that matches fully handles the request; failing
\* that a partly matching route answers 405; failing that a route matching
\* the path with the trailing slash toggled makes it a redirect; else 404.
\* The result is either the endpoint to call or a finished response.
RouterApp(routes, req) ==
    LET full    == {i \in 1..Len(routes) :
                        Matches(routes[i], req.path, req.method) = "FULL"}
        partial == {i \in 1..Len(routes) :
                        Matches(routes[i], req.path, req.method) = "PARTIAL"}
        first   == CHOOSE i \in full : \A j \in full : i <= j
    IN  IF full # {}
        THEN [endpoint |-> routes[first].endpoint, response |-> NoResponse]
        ELSE IF partial # {}
        THEN [endpoint |-> "", response |-> MethodNotAllowed]
        ELSE IF req.path # RootPath
                /\ \E i \in 1..Len(routes) :
                      Matches(routes[i], RedirectPath(req.path), req.method) # "NONE"
        THEN [endpoint |-> "", response |-> RedirectResponse]
        ELSE [endpoint |-> "", response |-> NotFound]

\* what the framework makes of the str index returns: a JSON response
IndexResponse == JSONResponse(index)

\* index declared with a query parameter q, which it appends to the greeting
CallEndpoint_ReadsQuery(endpoint, req) ==
    IF endpoint = "index" THEN JSONResponse(index \o req.query) ELSE FrameworkPage

\* the framework calls the matched endpoint; index takes no parameter, so
\* nothing of the request is handed to it
CallEndpoint(endpoint, req) ==
    IF endpoint = "index" THEN IndexResponse ELSE FrameworkPage

\* ----------------------------------------------------------------- actions
Init ==
    /\ settings \in [PROJECT_TITLE : Titles, PROJECT_VERSION : Versions]
    /\ modulePc = "line5"
    /\ app = NoApp
    /\ pic = NoPic
    /\ inflight = << >>
    /\ log = << >>
    /\ nextId = 1

\* the two keyword arguments of line 5 mixed up
ConstructApp_Swapped ==
    /\ modulePc = "line5"
    /\ app' = [title   |-> settings.PROJECT_VERSION,
               version |-> settings.PROJECT_TITLE,
               routes  |-> DefaultRoutes]
    /\ modulePc' = "line8"
    /\ UNCHANGED <<settings, pic, inflight, log, nextId>>

\* line 5: app = FastAPI(title=settings.PROJECT_TITLE,
\*                       version=settings.PROJECT_VERSION)
ConstructApp ==
    /\ modulePc = "line5"
    /\ app' = [title   |-> settings.PROJECT_TITLE,
               version |-> settings.PROJECT_VERSION,
               routes  |-> DefaultRoutes]
    /\ modulePc' = "line8"
    /\ UNCHANGED <<settings, pic, inflight, log, nextId>>

\* index registered under another path
RegisterIndex_OtherPath ==
    /\ modulePc = "line8"
    /\ app' = [app EXCEPT !.routes =
                  Append(@, [path |-> OtherPath, methods |-> {"GET"},
                             endpoint |-> "index"])]
    /\ modulePc' = "line14"
    /\ UNCHANGED <<settings, pic, inflight, log, nextId>>

\* lines 8-10: @app.get("/") def index
RegisterIndex ==
    /\ modulePc = "line8"
    /\ app' = [app EXCEPT !.routes = Append(@, IndexRoute)]
    /\ modulePc' = "line14"
    /\ UNCHANGED <<settings, pic, inflight, log, nextId>>

\* lines 14-20: pic = [[0.0, ...], ...]; the module is now imported and the
\* server starts to accept requests
DefinePic ==
    /\ modulePc = "line14"
    /\ pic' = PicLiteral
    /\ modulePc' = "serving"
    /\ UNCHANGED <<settings, app, inflight, log, nextId>>

\* the host runtime accepts a request
Receive(req) ==
    /\ modulePc = "serving"
    /\ nextId <= MaxRequests
    /\ Cardinality(DOMAIN inflight) < MaxInFlight
    /\ inflight' = [id \in DOMAIN inflight \cup {nextId} |->
                      IF id = nextId
                      THEN [req |-> req, pc |-> "dispatch", endpoint |-> "",
                            response |-> NoResponse]
                      ELSE inflight[id]]
    /\ nextId' = nextId + 1
    /\ UNCHANGED <<settings, modulePc, app, pic, log>>

\* the router picks the endpoint, or answers itself
Dispatch(id) ==
    /\ id \in DOMAIN inflight
    /\ inflight[id].pc = "dispatch"
    /\ LET r == RouterApp(app.routes, inflight[id].req)
       IN  inflight' = [inflight EXCEPT
                          ![id].endpoint = r.endpoint,
                          ![id].response = r.response,
                          ![id].pc = IF r.endpoint = "" THEN "send" ELSE "endpoint"]
    /\ UNCHANGED <<settings, modulePc, app, pic, log, nextId>>

\* index writing into the grid on every call
RunEndpoint_WritesPic(id) ==
    /\ id \in DOMAIN inflight
    /\ inflight[id].pc = "endpoint"
    /\ inflight' = [inflight EXCEPT
                      ![id].response = CallEndpoint(inflight[id].endpoint,
                                                    inflight[id].req),
                      ![id].pc = "send"]
    /\ pic' = IF inflight[id].endpoint = "index"
              THEN [pic EXCEPT ![1][1] = 1] ELSE pic
    /\ UNCHANGED <<settings, modulePc, app, log, nextId>>

\* index waiting for something that never comes
RunEndpoint_Blocks(id) ==
    /\ id \in DOMAIN inflight
    /\ inflight[id].pc = "endpoint"
    /\ inflight[id].endpoint # "index"
    /\ inflight' = [inflight EXCEPT
                      ![id].response = CallEndpoint(inflight[id].endpoint,
                                                    inflight[id].req),
                      ![id].pc = "send"]
    /\ UNCHANGED <<settings, modulePc, app, pic, log, nextId>>

\* the endpoint runs and its result is rendered
RunEndpoint(id) ==
    /\ id \in DOMAIN inflight
    /\ inflight[id].pc = "endpoint"
    /\ inflight' = [inflight EXCEPT
                      ![id].response = CallEndpoint(inflight[id].endpoint,
                                                    inflight[id].req),
                      ![id].pc = "send"]
    /\ UNCHANGED <<settings, modulePc, app, pic, log, nextId>>

\* the response is sent and the request is over
Send(id) ==
    /\ id \in DOMAIN inflight
    /\ inflight[id].pc = "send"
    /\ log' = Append(log, [id |-> id, req |-> inflight[id].req,
                           response |-> inflight[id].response])
    /\ inflight' = [i \in DOMAIN inflight \ {id} |-> inflight[i]]
    /\ UNCHANGED <<settings, modulePc, app, pic, nextId>>

Ids == 1..MaxRequests

RequestStep ==
    \/ \E req \in Requests : Receive(req)
    \/ \E id \in Ids : Dispatch(id)
    \/ \E id \in Ids : RunEndpoint(id)
    \/ \E id \in Ids : Send(id)

Next ==
    \/ ConstructApp
    \/ RegisterIndex
    \/ DefinePic
    \/ RequestStep

Spec == Init /\ [][Next]_vars

\* The same program receiving GET requests only, for the progress property.
\* The host runtime schedules the next step of every request in flight.
LiveRequests == {req \in Requests : req.method = "GET" /\ req.body = << >>}

LiveNext ==
    \/ ConstructApp
    \/ RegisterIndex
    \/ DefinePic
    \/ \E req \in LiveRequests : Receive(req)
    \/ \E id \in Ids : Dispatch(id)
    \/ \E id \in Ids : RunEndpoint(id)
    \/ \E id \in Ids : Send(id)

\* the next step of request id, whichever it is
Step(id) == Dispatch(id) \/ RunEndpoint(id) \/ Send(id)

FairSpec ==
    /\ Init /\ [][LiveNext]_vars
    /\ \A id \in Ids : WF_vars(Step(id))

\* ------------------------------------------------------------- properties
IsGetRoot(req) == req.method = "GET" /\ req.path = RootPath

\* the bytes of "Hello, World! - Subrata Mondal <U+1F680>" in UTF-8, between
\* the double quotes of a JSON string
GreetingBody ==
    <<34, 72, 101, 108, 108, 111, 44, 32, 87, 111, 114, 108, 100, 33, 32, 45,
      32, 83, 117, 98, 114, 97, 116, 97, 32, 77, 111, 110, 100, 97, 108, 32,
      240, 159, 154, 128, 34>>

\* the responses known so far: those sent, and those ready to be sent
Answered ==
    {[req |-> log[i].req, response |-> log[i].response] : i \in 1..Len(log)}
    \cup {[req |-> inflight[id].req, response |-> inflight[id].response] :
            id \in {j \in DOMAIN inflight : inflight[j].pc = "send"}}

\* C1: every GET request to "/", whatever its query string and body and
\* whatever was served before it, is answered with status 200 and the
\* greeting as its body.
C1_GetRootGreets ==
    \A a \in Answered :
        IsGetRoot(a.req) =>
            /\ a.response.status = 200
            /\ a.response.body = GreetingBody

\* a GET / with a query string has been answered after a GET / with a body
C1_Witness ==
    /\ Len(log) >= 2
    /\ IsGetRoot(log[1].req)
    /\ IsGetRoot(log[2].req)
    /\ log[1].req.body # << >>
    /\ log[2].req.query # << >>
    /\ log[2].response.status = 200

\* the paths the FastAPI constructor serves by default
FrameworkPaths == {OpenapiPath, DocsPath, OAuth2Path, RedocPath}

\* C2 as stated: every request to a path other than "/" is answered 404.
C2_OtherPathsAre404 ==
    \A a \in Answered : a.req.path # RootPath => a.response.status = 404

\* the answer the router and the endpoint give to a request
Answer(routes, req) ==
    LET r == RouterApp(routes, req)
    IN  IF r.endpoint = "" THEN r.response ELSE CallEndpoint(r.endpoint, req)

\* the routes once main.py is imported
LoadedRoutes == Append(DefaultRoutes, IndexRoute)

\* the same, of the answers of the loaded routes to the probe paths
ProbesOk ==
    \A path \in ProbePaths, method \in Methods \cup {"HEAD"} :
        LET resp == Answer(LoadedRoutes, [method |-> method, path |-> path,
                                          query |-> << >>, body |-> << >>])
        IN  /\ RStripSlash(path) \notin FrameworkPaths /\ path # RootPath
                  => resp.status = 404
            /\ resp.status = 200 => path \in FrameworkPaths \cup {RootPath}

\* C2 amended: every request to a path that is neither "/" nor one of the
\* four paths the FastAPI constructor serves by default (/openapi.json,
\* /docs, /docs/oauth2-redirect, /redoc), with or without trailing slashes,
\* is answered 404, and no path other than "/" and those four is answered
\* with a success status.
C2_UnknownPathsAre404 ==
    /\ \A a \in Answered :
          /\ RStripSlash(a.req.path) \notin FrameworkPaths /\ a.req.path # RootPath
                => a.response.status = 404
          /\ a.response.status = 200
                => a.req.path \in FrameworkPaths \cup {RootPath}
    /\ modulePc = "serving" => app.routes = LoadedRoutes /\ ProbesOk

\* a request to /x has been answered 404, and one to /docs otherwise
C2_Witness ==
    /\ \E i \in 1..Len(log) :
          log[i].req.path = OtherPath /\ log[i].response.status = 404
    /\ \E i \in 1..Len(log) :
          log[i].req.path = DocsPath /\ log[i].response.status # 404

\* C3: in the sequence of responses sent, every response to GET / has the
\* status and the body of the first response to GET /.
C3_RepeatedCallsAgree ==
    \A i \in 1..Len(log) :
        IsGetRoot(log[i].req) =>
            LET first == CHOOSE j \in 1..i :
                            /\ IsGetRoot(log[j].req)
                            /\ \A k \in 1..(j - 1) : ~IsGetRoot(log[k].req)
            IN  /\ log[i].response.status = log[first].response.status
                /\ log[i].response.body = log[first].response.body

\* GET / has been answered twice in a row
C3_Witness ==
    /\ Len(log) >= 2
    /\ IsGetRoot(log[1].req)
    /\ IsGetRoot(log[2].req)
    /\ log[1].req = log[2].req

\* C4: title and version are set by the construction of app from
\* PROJECT_TITLE and PROJECT_VERSION, before any request is received, equal
\* those settings ever after, and change in no other step.
C4_MetadataSetOnce ==
    /\ [](modulePc # "line5" =>
            /\ app.title = settings.PROJECT_TITLE
            /\ app.version = settings.PROJECT_VERSION)
    /\ [](modulePc = "line5" => nextId = 1 /\ inflight = << >> /\ log = << >>)
    /\ [][(app.title' # app.title \/ app.version' # app.version)
             => (modulePc = "line5" /\ app = NoApp)]_vars
    /\ [][settings' = settings]_vars

\* requests have been served and the metadata is what was configured
C4_Witness ==
    /\ nextId > 2
    /\ inflight = << >>
    /\ app.title = settings.PROJECT_TITLE
    /\ app.version = settings.PROJECT_VERSION
    /\ app.title # app.version

\* C5: no step of the handling of a request changes the application
\* metadata, the registered routes or the grid.
C5_RequestsChangeNothing ==
    [][RequestStep => UNCHANGED <<settings, app, pic>>]_vars

\* index has run for a request, and the program state is as loaded
C5_Witness ==
    /\ \E id \in DOMAIN inflight :
          inflight[id].pc = "send" /\ inflight[id].endpoint = "index"
    /\ pic = PicLiteral
    /\ Len(app.routes) = Len(DefaultRoutes) + 1

\* C6: two GET / requests that differ in query string or body are answered
\* with the same status and the same body.
C6_InputsNotRead ==
    \A a, b \in Answered :
        (IsGetRoot(a.req) /\ IsGetRoot(b.req) /\ a.req # b.req)
            => a.response = b.response

\* two GET / requests differing in both query string and body are answered
C6_Witness ==
    \E a, b \in Answered :
        /\ IsGetRoot(a.req) /\ IsGetRoot(b.req)
        /\ a.req.query # b.req.query
        /\ a.req.body # b.req.body
        /\ a.response.status = 200

\* C7: a GET / whose response is made ready while other requests are in
\* flight has status 200 and the greeting as its body.
C7_NoInterference ==
    \A id \in DOMAIN inflight :
        (/\ Cardinality(DOMAIN inflight) >= 2
         /\ inflight[id].pc = "send"
         /\ IsGetRoot(inflight[id].req))
            => inflight[id].response = [status |-> 200, body |-> GreetingBody]

\* two GET / requests in flight together, both with their response ready
C7_Witness ==
    \E i, j \in DOMAIN inflight :
        /\ i # j
        /\ IsGetRoot(inflight[i].req) /\ IsGetRoot(inflight[j].req)
        /\ inflight[i].pc = "send" /\ inflight[j].pc = "send"

\* C8: once defined, pic has five rows of five entries, all zero.
C8_PicAllZero ==
    modulePc = "serving" =>
        /\ DOMAIN pic = 1..5
        /\ \A i \in 1..5 :
              /\ DOMAIN pic[i] = 1..5
              /\ \A j \in 1..5 : pic[i][j] = 0

\* requests of both methods have been served and pic is defined
C8_Witness ==
    /\ \E i \in 1..Len(log) : log[i].req.method = "POST"
    /\ \E i \in 1..Len(log) : log[i].req.method = "GET"
    /\ pic # NoPic

\* C9: every request received is eventually answered, a GET / with
\* status 200.
C9_EveryRequestAnswered ==
    \A id \in Ids :
        (id \in DOMAIN inflight) ~>
            (\E i \in 1..Len(log) :
                /\ log[i].id = id
                /\ IsGetRoot(log[i].req) => log[i].response.status = 200)

\* the first request received was a GET / and its response has been sent
C9_Witness ==
    /\ Len(log) >= 1
    /\ log[1].id = 1
    /\ IsGetRoot(log[1].req)
    /\ inflight = << >>
====
